---- MODULE Spec2Model ----
(***************************************************************************)
(* Model of the bit-level decoding engine of fehrnah/bitbuffer:            *)
(* BitReadStream (src/src/readstream.rs) over a BitReadBuffer.  The buffer *)
(* type itself is not among the sources; its primitives are modelled from  *)
(* the specification (sections 4.1 and 4.2) and marked as such.            *)
(***************************************************************************)
EXTENDS Integers, Sequences, FiniteSets, TLC

VARIABLES
    bytes,      \* the storage shared by every buffer (Rc<Vec<u8>>), never mutated
    endian,     \* the Endianness marker E of the buffer and of every stream
    streams,    \* the live BitReadStream values: <<top-level, derived, ...>>
    last,       \* the last call: method, receiver, argument, returned value, state before
    ops         \* number of calls made so far

vars == <<bytes, endian, streams, last, ops>>

----------------------------------------------------------------------------
(* Bounds of the model *)

\* usize is modelled as an unsigned word of WordBits bits
WordBits == 8
\* number of stream values kept alive at once
MaxStreams == 3
\* number of calls in one run
MaxOps == 3

Word == 2 ^ WordBits

----------------------------------------------------------------------------
(* usize arithmetic: without overflow checks the result wraps; with them    *)
(* the operation panics.  ovf records that the operation overflowed, so     *)
(* that both outcomes can be produced.                                      *)

WAdd(a, b) == [v |-> (a + b) % Word, ovf |-> (a + b) >= Word]
WSub(a, b) == [v |-> (a - b) % Word, ovf |-> a < b]
WMul(a, b) == [v |-> (a * b) % Word, ovf |-> (a * b) >= Word]

Min(a, b) == IF a <= b THEN a ELSE b

----------------------------------------------------------------------------
(* Results (crate::Result<T>, BitError) *)

Ok(v) == [kind |-> "Ok", value |-> v]
NotEnoughData(r, l) == [kind |-> "NotEnoughData", requested |-> r, bits_left |-> l]
TooManyBits == [kind |-> "TooManyBits"]
IndexOutOfBounds(p, s) == [kind |-> "IndexOutOfBounds", pos |-> p, size |-> s]
Utf8Error(b) == [kind |-> "Utf8Error", bytes |-> b]
Panic == [kind |-> "Panic"]

IsOk(r) == r.kind = "Ok"

----------------------------------------------------------------------------
(* Bit combination (spec 4.1).  Bit i of the storage, in reading order:     *)
(* little-endian starts at the least significant bit of each byte,          *)
(* big-endian at the most significant.                                      *)

PhysBits == Len(bytes) * 8

Bit(i) ==
    LET byte == bytes[(i \div 8) + 1]
    IN  IF endian = "LE" THEN (byte \div (2 ^ (i % 8))) % 2
                         ELSE (byte \div (2 ^ (7 - (i % 8)))) % 2

\* count bits from bit position pos as an unsigned integer: the first-read
\* bit is the least significant (LE) or the most significant (BE)
RECURSIVE ReadUnsigned(_, _)
ReadUnsigned(pos, count) ==
    IF count = 0 THEN 0
    ELSE IF endian = "LE"
         THEN Bit(pos) + 2 * ReadUnsigned(pos + 1, count - 1)
         ELSE 2 * ReadUnsigned(pos, count - 1) + Bit(pos + count - 1)

\* sign extension to the width of a signed target type
SignExtend(v, count, signed) ==
    IF signed /\ count > 0 /\ v >= 2 ^ (count - 1) THEN v - 2 ^ count ELSE v

\* the byte at bit position pos
ByteAt(pos) == ReadUnsigned(pos, 8)

BytesAt(pos, n) == [k \in 1..n |-> ByteAt(pos + 8 * (k - 1))]

\* the bits of a float, most significant first (the value is the bit pattern)
FloatBits(pos, n) ==
    [k \in 1..n |-> IF endian = "LE" THEN Bit(pos + n - k) ELSE Bit(pos + k - 1)]

----------------------------------------------------------------------------
(* UTF-8 (String::from_utf8, str::chars) *)

IsCont(b, i) == i <= Len(b) /\ b[i] >= 128 /\ b[i] <= 191
InRange(b, i, lo, hi) == i <= Len(b) /\ b[i] >= lo /\ b[i] <= hi

\* byte length of the well-formed code point starting at index i, 0 if none
CharLen(b, i) ==
    LET c == b[i] IN
    IF c < 128 THEN 1
    ELSE IF c >= 194 /\ c <= 223
         THEN IF IsCont(b, i + 1) THEN 2 ELSE 0
    ELSE IF c = 224
         THEN IF InRange(b, i + 1, 160, 191) /\ IsCont(b, i + 2) THEN 3 ELSE 0
    ELSE IF (c >= 225 /\ c <= 236) \/ c = 238 \/ c = 239
         THEN IF IsCont(b, i + 1) /\ IsCont(b, i + 2) THEN 3 ELSE 0
    ELSE IF c = 237
         THEN IF InRange(b, i + 1, 128, 159) /\ IsCont(b, i + 2) THEN 3 ELSE 0
    ELSE IF c = 240
         THEN IF InRange(b, i + 1, 144, 191) /\ IsCont(b, i + 2) /\ IsCont(b, i + 3)
              THEN 4 ELSE 0
    ELSE IF c >= 241 /\ c <= 243
         THEN IF IsCont(b, i + 1) /\ IsCont(b, i + 2) /\ IsCont(b, i + 3)
              THEN 4 ELSE 0
    ELSE IF c = 244
         THEN IF InRange(b, i + 1, 128, 143) /\ IsCont(b, i + 2) /\ IsCont(b, i + 3)
              THEN 4 ELSE 0
    ELSE 0

\* number of leading bytes of b that form well-formed code points
RECURSIVE ValidFrom(_, _)
ValidFrom(b, i) ==
    IF i > Len(b) THEN Len(b)
    ELSE IF CharLen(b, i) = 0 THEN i - 1
    ELSE ValidFrom(b, i + CharLen(b, i))

ValidUpTo(b) == ValidFrom(b, 1)
IsUtf8(b) == ValidUpTo(b) = Len(b)

\* index of the first NUL of b, Len(b) + 1 if there is none
RECURSIVE FirstNul(_, _)
FirstNul(b, i) ==
    IF i > Len(b) THEN Len(b) + 1
    ELSE IF b[i] = 0 THEN i
    ELSE FirstNul(b, i + 1)

UpToNul(b) == SubSeq(b, 1, FirstNul(b, 1) - 1)

----------------------------------------------------------------------------
(* BitReadBuffer: a logical bit length over the shared storage.  Its        *)
(* primitives take an explicit bit position and have no cursor (spec 4.2).  *)
(* Each returns the result and whether a usize operation overflowed.        *)

\* BitReadBuffer::new: the whole storage
new_buffer == [bit_len |-> PhysBits]

\* bits between position and the logical end, as the error reports them
buffer_bits_left(buffer, position) == WSub(buffer.bit_len, position)

buffer_read_bool(buffer, position) ==
    IF position + 1 <= buffer.bit_len
    THEN [res |-> Ok(Bit(position) # 0), ovf |-> FALSE]
    ELSE [res |-> NotEnoughData(1, buffer_bits_left(buffer, position).v),
          ovf |-> buffer_bits_left(buffer, position).ovf]

\* T is the target type: [bits |-> its width, signed |-> whether it is signed]
buffer_read_int(buffer, position, count, T) ==
    IF count > T.bits
    THEN [res |-> TooManyBits, ovf |-> FALSE]
    ELSE IF position + count <= buffer.bit_len
    THEN [res |-> Ok(SignExtend(ReadUnsigned(position, count), count, T.signed)),
          ovf |-> FALSE]
    ELSE [res |-> NotEnoughData(count, buffer_bits_left(buffer, position).v),
          ovf |-> buffer_bits_left(buffer, position).ovf]

\* F is the width of the float type in bits
buffer_read_float(buffer, position, F) ==
    IF position + F <= buffer.bit_len
    THEN [res |-> Ok(FloatBits(position, F)), ovf |-> FALSE]
    ELSE [res |-> NotEnoughData(F, buffer_bits_left(buffer, position).v),
          ovf |-> buffer_bits_left(buffer, position).ovf]

buffer_read_bytes(buffer, position, byte_count) ==
    IF position + byte_count * 8 <= buffer.bit_len
    THEN [res |-> Ok(BytesAt(position, byte_count)), ovf |-> FALSE]
    ELSE [res |-> NotEnoughData(byte_count * 8, buffer_bits_left(buffer, position).v),
          ovf |-> buffer_bits_left(buffer, position).ovf]

\* the whole bytes from position up to the first NUL or the end of the storage
RECURSIVE ScanToNul(_)
ScanToNul(position) ==
    IF position + 8 > PhysBits THEN <<>>
    ELSE IF ByteAt(position) = 0 THEN <<>>
    ELSE <<ByteAt(position)>> \o ScanToNul(position + 8)

\* byte_len is an Option<usize>: <<>> is None, <<n>> is Some(n).
\* A string value is the sequence of its UTF-8 bytes.
buffer_read_string(buffer, position, byte_len) ==
    IF byte_len # <<>>
    THEN LET r == buffer_read_bytes(buffer, position, byte_len[1])
         IN  IF ~IsOk(r.res) THEN r
             ELSE IF ~IsUtf8(r.res.value)
                  THEN [res |-> Utf8Error(r.res.value), ovf |-> FALSE]
                  ELSE [res |-> Ok(UpToNul(r.res.value)), ovf |-> FALSE]
    ELSE LET b == ScanToNul(position)
         IN  IF ~IsUtf8(b)
             THEN [res |-> Utf8Error(b), ovf |-> FALSE]
             ELSE [res |-> Ok(b), ovf |-> FALSE]

\* a buffer over the same storage ending at bit_len
get_sub_buffer(buffer, bit_len) ==
    IF bit_len > buffer.bit_len
    THEN NotEnoughData(bit_len, buffer.bit_len)
    ELSE Ok([bit_len |-> bit_len])

----------------------------------------------------------------------------
(* BitReadStream: [buffer, start_pos, pos].  Every method is an operator    *)
(* from the receiver (and arguments) to the outcome of the call computed    *)
(* with wrapping arithmetic: the receiver afterwards, the returned value,   *)
(* and whether a usize operation on the executed path overflowed.           *)

new(buffer) == [buffer |-> buffer, start_pos |-> 0, pos |-> 0]

bit_len(self) == WSub(self.buffer.bit_len, self.start_pos)

pos(self) == WSub(self.pos, self.start_pos)

bits_left(self) ==
    LET l == bit_len(self)
        p == pos(self)
    IN  [v |-> WSub(l.v, p.v).v, ovf |-> l.ovf \/ p.ovf \/ WSub(l.v, p.v).ovf]

\* Advance without the is_ok() test: the cursor moves on a failed read too
Advance_m(self, r, count) ==
    [self |-> [self EXCEPT !.pos = WAdd(self.pos, count).v],
     res |-> r.res,
     ovf |-> r.ovf \/ WAdd(self.pos, count).ovf]

\* "if result.is_ok() { self.pos += count; } result"
Advance(self, r, count) ==
    IF IsOk(r.res)
    THEN [self |-> [self EXCEPT !.pos = WAdd(self.pos, count).v],
          res |-> r.res,
          ovf |-> r.ovf \/ WAdd(self.pos, count).ovf]
    ELSE [self |-> self, res |-> r.res, ovf |-> r.ovf]

read_bool(self) ==
    Advance(self, buffer_read_bool(self.buffer, self.pos), 1)

\* read_int advancing by the width of T instead of count
read_int_m20(self, count, T) ==
    Advance(self, buffer_read_int(self.buffer, self.pos, count, T), T.bits)

\* read_int clamping count to the width of T instead of passing it on
read_int_m(self, count, T) ==
    Advance(self, buffer_read_int(self.buffer, self.pos, Min(count, T.bits), T),
            Min(count, T.bits))

read_int(self, count, T) ==
    Advance(self, buffer_read_int(self.buffer, self.pos, count, T), count)

read_float(self, F) ==
    Advance(self, buffer_read_float(self.buffer, self.pos, F), F)

read_bytes(self, byte_count) ==
    LET count == WMul(byte_count, 8)
        a == Advance(self, buffer_read_bytes(self.buffer, self.pos, byte_count), count.v)
    IN  [a EXCEPT !.ovf = @ \/ count.ovf]

\* consumed, with the declared length replaced by the length of the value
consumed_m13(byte_len, len) ==
    IF byte_len # <<>>
    THEN WMul(len, 8)
    ELSE [v |-> WMul(WAdd(len, 1).v, 8).v,
          ovf |-> WMul(WAdd(len, 1).v, 8).ovf \/ WAdd(len, 1).ovf]

\* consumed, without the terminator of an unbounded string
consumed_m14(byte_len, len) ==
    IF byte_len # <<>>
    THEN WMul(byte_len[1], 8)
    ELSE WMul(len, 8)

\* "match byte_len { Some(len) => len * 8, None => (result.len() + 1) * 8 }":
\* the bits a string of len bytes consumes
consumed(byte_len, len) ==
    IF byte_len # <<>>
    THEN WMul(byte_len[1], 8)
    ELSE [v |-> WMul(WAdd(len, 1).v, 8).v,
          ovf |-> WMul(WAdd(len, 1).v, 8).ovf \/ WAdd(len, 1).ovf]

\* FitPrefix cutting at max_length bytes, inside a code point or not
FitPrefix_m(b, i, max_length) == Min(Len(b), max_length)

\* the longest prefix of whole code points of string b, from index i with n
\* bytes already taken, that fits in max_length bytes
RECURSIVE FitPrefix(_, _, _)
FitPrefix(b, i, max_length) ==
    IF i > Len(b) THEN Len(b)
    ELSE IF (i - 1) + CharLen(b, i) > max_length THEN i - 1
    ELSE FitPrefix(b, i + CharLen(b, i), max_length)

read_string(self, byte_len) ==
    LET left == bits_left(self)
        max_length == left.v \div 8
        r == buffer_read_string(self.buffer, self.pos, byte_len)
    IN  IF r.res.kind = "Utf8Error"
        THEN \* still advance the stream on malformed utf8
             LET m == IF byte_len # <<>>
                      THEN WMul(byte_len[1], 8)
                      ELSE LET w == WMul(WAdd(Len(r.res.bytes), 1).v, 8)
                           IN  [v |-> Min(w.v, max_length),
                                ovf |-> w.ovf \/ WAdd(Len(r.res.bytes), 1).ovf]
                 np == WAdd(self.pos, m.v)
             IN  [self |-> [self EXCEPT !.pos = np.v],
                  res |-> r.res,
                  ovf |-> left.ovf \/ r.ovf \/ m.ovf \/ np.ovf]
        ELSE IF ~IsOk(r.res)
        THEN [self |-> self, res |-> r.res, ovf |-> left.ovf \/ r.ovf]
        ELSE LET read == consumed(byte_len, Len(r.res.value))
             IN  IF read.v > left.v
                 THEN LET acc == SubSeq(r.res.value, 1,
                                        FitPrefix(r.res.value, 1, max_length))
                          np == WAdd(self.pos, WMul(Len(acc), 8).v)
                      IN  [self |-> [self EXCEPT !.pos = np.v],
                           res |-> Ok(acc),
                           ovf |-> left.ovf \/ r.ovf \/ read.ovf
                                   \/ WMul(Len(acc), 8).ovf \/ np.ovf]
                 ELSE LET np == WAdd(self.pos, read.v)
                      IN  [self |-> [self EXCEPT !.pos = np.v],
                           res |-> r.res,
                           ovf |-> left.ovf \/ r.ovf \/ read.ovf \/ np.ovf]

read_bits(self, count) ==
    LET end == WAdd(self.pos, count)
        b == get_sub_buffer(self.buffer, end.v)
    IN  IF ~IsOk(b)
        THEN [self |-> self, res |-> b, ovf |-> end.ovf]
        ELSE [self |-> [self EXCEPT !.pos = end.v],
              res |-> Ok([buffer |-> b.value, start_pos |-> self.pos, pos |-> self.pos]),
              ovf |-> end.ovf]

\* skip_bits refusing to skip to the very end of the window
skip_bits_m(self, count) ==
    LET left == bits_left(self)
    IN  IF count < left.v
        THEN [self |-> [self EXCEPT !.pos = WAdd(self.pos, count).v],
              res |-> Ok(<<>>),
              ovf |-> left.ovf \/ WAdd(self.pos, count).ovf]
        ELSE [self |-> self, res |-> NotEnoughData(count, left.v), ovf |-> left.ovf]

skip_bits(self, count) ==
    LET left == bits_left(self)
    IN  IF count <= left.v
        THEN [self |-> [self EXCEPT !.pos = WAdd(self.pos, count).v],
              res |-> Ok(<<>>),
              ovf |-> left.ovf \/ WAdd(self.pos, count).ovf]
        ELSE [self |-> self, res |-> NotEnoughData(count, left.v), ovf |-> left.ovf]

align(self) ==
    LET n == self.pos % 8
    IN  IF n = 0
        THEN [self |-> self, res |-> Ok(0), ovf |-> FALSE]
        ELSE LET s == skip_bits(self, 8 - n)
             IN  IF IsOk(s.res) THEN [s EXCEPT !.res = Ok(8 - n)] ELSE s

\* set_pos taking p as a position in the buffer, not in the stream
set_pos_m(self, p) ==
    LET l == bit_len(self)
    IN  IF p > l.v
        THEN [self |-> self, res |-> IndexOutOfBounds(p, l.v), ovf |-> l.ovf]
        ELSE [self |-> [self EXCEPT !.pos = p], res |-> Ok(<<>>), ovf |-> l.ovf]

set_pos(self, p) ==
    LET l == bit_len(self)
    IN  IF p > l.v
        THEN [self |-> self, res |-> IndexOutOfBounds(p, l.v), ovf |-> l.ovf]
        ELSE [self |-> [self EXCEPT !.pos = WAdd(p, self.start_pos).v],
              res |-> Ok(<<>>),
              ovf |-> l.ovf \/ WAdd(p, self.start_pos).ovf]

check_read(self, count) ==
    LET left == bits_left(self)
    IN  IF left.v < count
        THEN [self |-> self, res |-> NotEnoughData(count, left.v), ovf |-> left.ovf]
        ELSE [self |-> self, res |-> Ok(<<>>), ovf |-> left.ovf]

\* the field-wise clone (what #[derive(Clone)] would give): the origin is kept
clone_m(self) ==
    [self |-> self,
     res |-> Ok([buffer |-> self.buffer, start_pos |-> self.start_pos, pos |-> self.pos]),
     ovf |-> FALSE]

clone(self) ==
    [self |-> self,
     res |-> Ok([buffer |-> self.buffer, start_pos |-> self.pos, pos |-> self.pos]),
     ovf |-> FALSE]

----------------------------------------------------------------------------
(* The unchecked reads.  They return a bare value, not a Result.  The       *)
(* buffer's unchecked primitives mirror the checked ones without the        *)
(* validation (spec 4.2); a call outside their precondition is undefined    *)
(* behaviour: it may not return, or return any value.  Each operator gives  *)
(* the set of possible outcomes of the call.                                *)

Value(v) == [kind |-> "Value", value |-> v]

\* the outcomes of undefined behaviour: no return, or one of the values vs
Undefined(vs) == {Panic} \cup {Value(v) : v \in vs}

buffer_read_bool_unchecked(buffer, position) ==
    IF position + 1 <= buffer.bit_len
    THEN {Value(Bit(position) # 0)}
    ELSE Undefined({TRUE, FALSE})

buffer_read_int_unchecked(buffer, position, count, T) ==
    IF count <= T.bits /\ position + count <= buffer.bit_len
    THEN {Value(SignExtend(ReadUnsigned(position, count), count, T.signed))}
    ELSE Undefined({0, 1})

buffer_read_float_unchecked(buffer, position, F) ==
    IF position + F <= buffer.bit_len
    THEN {Value(FloatBits(position, F))}
    ELSE Undefined({[k \in 1..F |-> 0]})

buffer_read_bytes_unchecked(buffer, position, byte_count) ==
    IF position + byte_count * 8 <= buffer.bit_len
    THEN {Value(BytesAt(position, byte_count))}
    ELSE Undefined({<<>>})

\* "let result = ...; self.pos += count; result" for each possible result
AdvanceUnchecked(self, results, count) ==
    {[self |-> IF r.kind = "Value"
               THEN [self EXCEPT !.pos = WAdd(self.pos, count).v]
               ELSE self,
      res |-> r,
      ovf |-> r.kind = "Value" /\ WAdd(self.pos, count).ovf] : r \in results}

read_bool_unchecked(self) ==
    AdvanceUnchecked(self, buffer_read_bool_unchecked(self.buffer, self.pos), 1)

read_int_unchecked(self, count, T) ==
    AdvanceUnchecked(self, buffer_read_int_unchecked(self.buffer, self.pos, count, T),
                     count)

read_float_unchecked(self, F) ==
    AdvanceUnchecked(self, buffer_read_float_unchecked(self.buffer, self.pos, F), F)

\* read_bytes_unchecked advancing by the byte count
read_bytes_unchecked_m(self, byte_count) ==
    AdvanceUnchecked(self,
                     buffer_read_bytes_unchecked(self.buffer, self.pos, byte_count),
                     byte_count)

read_bytes_unchecked(self, byte_count) ==
    LET count == WMul(byte_count, 8)
    IN  {[o EXCEPT !.ovf = @ \/ count.ovf] :
            o \in AdvanceUnchecked(self,
                     buffer_read_bytes_unchecked(self.buffer, self.pos, byte_count),
                     count.v)}

----------------------------------------------------------------------------
(* read<T> and read_sized<T>: T is a type descriptor.                       *)
(*   [kind |-> "int", int |-> U]     an integer type U                      *)
(*   [kind |-> "float", bits |-> F]  f32 / f64                              *)
(*   [kind |-> "bool"], [kind |-> "string"]                                 *)
(*   [kind |-> "option", of |-> T]   Option<T>, a value being <<>> or <<v>> *)
(*   [kind |-> "vec", of |-> T]      Vec<T>, a value being a sequence       *)

TInt(U) == [kind |-> "int", int |-> U]
TFloat(F) == [kind |-> "float", bits |-> F]
TBool == [kind |-> "bool"]
TString == [kind |-> "string"]
TOption(T) == [kind |-> "option", of |-> T]
TVec(T) == [kind |-> "vec", of |-> T]

\* T::read(stream) of read.rs
RECURSIVE read_T(_, _)
\* read_T with the flag of an Option inverted: None when the bit is 1
read_T_m(self, T) ==
    IF T.kind = "int" THEN read_int(self, T.int.bits, T.int)
    ELSE IF T.kind = "float" THEN read_float(self, T.bits)
    ELSE IF T.kind = "bool" THEN read_bool(self)
    ELSE IF T.kind = "string" THEN read_string(self, <<>>)
    ELSE LET b == read_bool(self)
         IN  IF ~IsOk(b.res) THEN b
             ELSE IF b.res.value
             THEN [self |-> b.self, res |-> Ok(<<>>), ovf |-> b.ovf]
             ELSE LET v == read_T(b.self, T.of)
                  IN  IF ~IsOk(v.res)
                      THEN [self |-> v.self, res |-> v.res, ovf |-> b.ovf \/ v.ovf]
                      ELSE [self |-> v.self, res |-> Ok(<<v.res.value>>),
                            ovf |-> b.ovf \/ v.ovf]

read_T(self, T) ==
    IF T.kind = "int" THEN read_int(self, T.int.bits, T.int)
    ELSE IF T.kind = "float" THEN read_float(self, T.bits)
    ELSE IF T.kind = "bool" THEN read_bool(self)
    ELSE IF T.kind = "string" THEN read_string(self, <<>>)
    ELSE \* Option<T>: "if stream.read()? { Ok(Some(stream.read()?)) } else { Ok(None) }"
         LET b == read_T(self, TBool)
         IN  IF ~IsOk(b.res) THEN b
             ELSE IF b.res.value
             THEN LET v == read_T(b.self, T.of)
                  IN  IF ~IsOk(v.res)
                      THEN [self |-> v.self, res |-> v.res, ovf |-> b.ovf \/ v.ovf]
                      ELSE [self |-> v.self, res |-> Ok(<<v.res.value>>),
                            ovf |-> b.ovf \/ v.ovf]
             ELSE [self |-> b.self, res |-> Ok(<<>>), ovf |-> b.ovf]

\* "for _ in 0..size { vec.push(stream.read()?) }" with n elements to go
RECURSIVE read_elements(_, _, _, _)
read_elements(self, T, n, vec) ==
    IF n = 0 THEN [self |-> self, res |-> Ok(vec), ovf |-> FALSE]
    ELSE LET v == read_T(self, T)
         IN  IF ~IsOk(v.res) THEN v
             ELSE LET rest == read_elements(v.self, T, n - 1, Append(vec, v.res.value))
                  IN  [rest EXCEPT !.ovf = @ \/ v.ovf]

\* read_sized_T with a Vec of one element whatever the size
read_sized_T_m(self, T, size) ==
    IF T.kind = "int" THEN read_int(self, size, T.int)
    ELSE IF T.kind = "string" THEN read_string(self, <<size>>)
    ELSE read_elements(self, T.of, 1, <<>>)

\* T::read(stream, size) of read.rs
read_sized_T(self, T, size) ==
    IF T.kind = "int" THEN read_int(self, size, T.int)
    ELSE IF T.kind = "string" THEN read_string(self, <<size>>)
    ELSE read_elements(self, T.of, size, <<>>)

\* BitReadStream::read and BitReadStream::read_sized
read(self, T) == read_T(self, T)

read_sized(self, T, size) == read_sized_T(self, T, size)

----------------------------------------------------------------------------
(* Inputs *)

\* the storage of the doc examples of readstream.rs, and a storage holding
\* NUL-terminated text with a two-byte code point and an invalid byte
DocBytes == <<181, 106, 172, 153, 153, 153, 153, 231>>
TextBytes == <<72, 195, 169, 65, 0, 255, 66, 0>>
Storages == {DocBytes, TextBytes}

U8 == [bits |-> 8, signed |-> FALSE]
I16 == [bits |-> 16, signed |-> TRUE]
\* <<count, T>> of read_int; <<9, U8>> asks for more bits than u8 holds
IntArgs == {<<3, U8>>, <<9, U8>>, <<16, I16>>}
\* f32 and f64
FloatTypes == {32, 64}

\* bit counts and positions passed to the calls; Word - 1 is usize::MAX
BitCounts == {0, 3, 13}
HugeCounts == {Word - 1}
Counts == BitCounts \cup HugeCounts
\* Word \div 8 is the least byte count whose bit count overflows
ByteCounts == {1, 5, Word \div 8}
ByteLens == {<<>>, <<2>>, <<5>>, <<Word \div 8>>}

\* the types given to read<T>, and the <<T, size>> given to read_sized<T>
ReadTypes == {TInt(U8), TBool, TOption(TInt(U8)), TOption(TOption(TBool)), TString}
SizedArgs == {<<TInt(U8), 3>>, <<TInt(U8), 9>>, <<TString, 2>>,
              <<TVec(TInt(U8)), 0>>, <<TVec(TInt(U8)), 2>>, <<TVec(TOption(TBool)), 3>>}
\* positions from which the generic reads are tried
SeekCounts == {0, 3, 13, 47}

----------------------------------------------------------------------------
(* The state machine: one action per method of BitReadStream, called on any *)
(* live stream.                                                             *)

Init ==
    /\ bytes \in Storages
    /\ endian \in {"LE", "BE"}
    /\ streams = <<new(new_buffer)>>
    /\ last = [op |-> "new", s |-> 1, arg |-> <<>>, res |-> Ok(<<>>), before |-> <<>>]
    /\ ops = 0

\* what a call whose outcome is o can do: with overflow checks compiled in
\* (a debug build) an overflowing call panics, without them it wraps
Panics(o) == IF o.ovf THEN {TRUE, FALSE} ELSE {FALSE}

\* Return with one cursor shared by all the streams over the same storage
Return_m(i, op, arg, o) ==
    /\ ops < MaxOps
    /\ ops' = ops + 1
    /\ streams' = [j \in 1..Len(streams) |-> [streams[j] EXCEPT !.pos = o.self.pos]]
    /\ last' = [op |-> op, s |-> i, arg |-> arg, res |-> o.res, before |-> streams]
    /\ UNCHANGED <<bytes, endian>>

\* the call returns: the receiver is updated and the call recorded; a call
\* that panics changes nothing
Return(i, op, arg, o) ==
    /\ ops < MaxOps
    /\ ops' = ops + 1
    /\ \E panic \in Panics(o) :
          IF panic
          THEN /\ streams' = streams
               /\ last' = [op |-> op, s |-> i, arg |-> arg, res |-> Panic,
                           before |-> streams]
          ELSE /\ streams' = [streams EXCEPT ![i] = o.self]
               /\ last' = [op |-> op, s |-> i, arg |-> arg, res |-> o.res,
                           before |-> streams]
    /\ UNCHANGED <<bytes, endian>>

\* the call returns a new stream, which the caller keeps while there is room
ReturnStream(i, op, arg, o) ==
    /\ ops < MaxOps
    /\ ops' = ops + 1
    /\ \E panic \in Panics(o) :
          IF panic
          THEN /\ streams' = streams
               /\ last' = [op |-> op, s |-> i, arg |-> arg, res |-> Panic,
                           before |-> streams]
          ELSE /\ streams' = IF IsOk(o.res) /\ Len(streams) < MaxStreams
                             THEN Append([streams EXCEPT ![i] = o.self], o.res.value)
                             ELSE [streams EXCEPT ![i] = o.self]
               /\ last' = [op |-> op, s |-> i, arg |-> arg, res |-> o.res,
                           before |-> streams]
    /\ UNCHANGED <<bytes, endian>>

ReadBool(i) == Return(i, "read_bool", <<>>, read_bool(streams[i]))

ReadInt(i, count, T) ==
    Return(i, "read_int", <<count, T>>, read_int(streams[i], count, T))

ReadFloat(i, F) == Return(i, "read_float", <<F>>, read_float(streams[i], F))

ReadBytes(i, n) == Return(i, "read_bytes", <<n>>, read_bytes(streams[i], n))

ReadString(i, byte_len) ==
    Return(i, "read_string", byte_len, read_string(streams[i], byte_len))

ReadBits(i, count) == ReturnStream(i, "read_bits", <<count>>, read_bits(streams[i], count))

SkipBits(i, count) == Return(i, "skip_bits", <<count>>, skip_bits(streams[i], count))

Align(i) == Return(i, "align", <<>>, align(streams[i]))

SetPos(i, p) == Return(i, "set_pos", <<p>>, set_pos(streams[i], p))

CheckRead(i, count) == Return(i, "check_read", <<count>>, check_read(streams[i], count))

Clone(i) == ReturnStream(i, "clone", <<>>, clone(streams[i]))

Next ==
    \/ \E i \in 1..Len(streams) : ReadBool(i)
    \/ \E i \in 1..Len(streams), a \in IntArgs : ReadInt(i, a[1], a[2])
    \/ \E i \in 1..Len(streams), F \in FloatTypes : ReadFloat(i, F)
    \/ \E i \in 1..Len(streams), n \in ByteCounts : ReadBytes(i, n)
    \/ \E i \in 1..Len(streams), byte_len \in ByteLens : ReadString(i, byte_len)
    \/ \E i \in 1..Len(streams), count \in BitCounts : ReadBits(i, count)
    \/ \E i \in 1..Len(streams), count \in Counts : SkipBits(i, count)
    \/ \E i \in 1..Len(streams) : Align(i)
    \/ \E i \in 1..Len(streams), p \in Counts : SetPos(i, p)
    \/ \E i \in 1..Len(streams), count \in Counts : CheckRead(i, count)
    \/ \E i \in 1..Len(streams) : Clone(i)

Spec == Init /\ [][Next]_vars

\* the same calls, and read_bits with a count for which pos + count does not
\* fit in a usize
ReadBitsHuge == \E i \in 1..Len(streams), count \in HugeCounts : ReadBits(i, count)

NextWord == Next \/ ReadBitsHuge

SpecWord == Init /\ [][NextWord]_vars

----------------------------------------------------------------------------
(* The generic reads, on streams positioned by skip_bits and carved by      *)
(* read_bits.                                                               *)

Read(i, T) == Return(i, "read", <<T>>, read(streams[i], T))

ReadSized(i, T, size) ==
    Return(i, "read_sized", <<T, size>>, read_sized(streams[i], T, size))

NextGeneric ==
    \/ \E i \in 1..Len(streams), T \in ReadTypes : Read(i, T)
    \/ \E i \in 1..Len(streams), a \in SizedArgs : ReadSized(i, a[1], a[2])
    \/ \E i \in 1..Len(streams), count \in SeekCounts : SkipBits(i, count)
    \/ \E i \in 1..Len(streams), count \in SeekCounts : ReadBits(i, count)

SpecGeneric == Init /\ [][NextGeneric]_vars

----------------------------------------------------------------------------
(* The unchecked reads, on streams positioned by skip_bits and carved by    *)
(* read_bits.                                                               *)

ReadBoolUnchecked(i) ==
    \E o \in read_bool_unchecked(streams[i]) :
        Return(i, "read_bool_unchecked", <<>>, o)

ReadIntUnchecked(i, count, T) ==
    \E o \in read_int_unchecked(streams[i], count, T) :
        Return(i, "read_int_unchecked", <<count, T>>, o)

ReadFloatUnchecked(i, F) ==
    \E o \in read_float_unchecked(streams[i], F) :
        Return(i, "read_float_unchecked", <<F>>, o)

ReadBytesUnchecked(i, n) ==
    \E o \in read_bytes_unchecked(streams[i], n) :
        Return(i, "read_bytes_unchecked", <<n>>, o)

\* the counts that position and carve the streams of the unchecked reads
UncheckedCounts == {3, 13}

NextUnchecked ==
    \/ \E i \in 1..Len(streams) : ReadBoolUnchecked(i)
    \/ \E i \in 1..Len(streams), a \in IntArgs : ReadIntUnchecked(i, a[1], a[2])
    \/ \E i \in 1..Len(streams), F \in FloatTypes : ReadFloatUnchecked(i, F)
    \/ \E i \in 1..Len(streams), n \in ByteCounts : ReadBytesUnchecked(i, n)
    \/ \E i \in 1..Len(streams), count \in UncheckedCounts : SkipBits(i, count)
    \/ \E i \in 1..Len(streams), count \in UncheckedCounts : ReadBits(i, count)

SpecUnchecked == Init /\ [][NextUnchecked]_vars

----------------------------------------------------------------------------
(* read_int with several counts, on streams positioned by skip_bits and     *)
(* carved by read_bits.                                                     *)

U16 == [bits |-> 16, signed |-> FALSE]
\* <<count, T>> of read_int: counts within a byte and across bytes
ComposeArgs == {<<1, U8>>, <<3, U8>>, <<5, U8>>, <<3, U16>>, <<7, U16>>, <<9, U16>>}
\* skip_bits and read_bits counts: a whole byte and a count that leaves the
\* cursor inside a byte
ComposeCounts == {8, 13}

NextInts ==
    \/ \E i \in 1..Len(streams), a \in ComposeArgs : ReadInt(i, a[1], a[2])
    \/ \E i \in 1..Len(streams), count \in ComposeCounts : SkipBits(i, count)
    \/ \E i \in 1..Len(streams), count \in ComposeCounts : ReadBits(i, count)

SpecInts == Init /\ [][NextInts]_vars

----------------------------------------------------------------------------
(* read_string, on storages holding text, on streams positioned by          *)
(* skip_bits and carved by read_bits.                                       *)

\* an invalid byte two bytes before a NUL, "HéA" NUL-terminated, and
\* "€B" running to the end of the storage without a NUL
BadText == <<255, 66, 0, 72, 195, 169, 65, 0, 226, 130, 172, 66>>
TextStorages == {BadText, TextBytes}
\* skip_bits counts leading to the texts, read_bits counts carving windows
\* of 1, 2 and 3 whole bytes
TextSkips == {24, 40}
TextWindows == {13, 21, 29}

InitText ==
    /\ bytes \in TextStorages
    /\ endian \in {"LE", "BE"}
    /\ streams = <<new(new_buffer)>>
    /\ last = [op |-> "new", s |-> 1, arg |-> <<>>, res |-> Ok(<<>>), before |-> <<>>]
    /\ ops = 0

NextString ==
    \/ \E i \in 1..Len(streams), byte_len \in ByteLens : ReadString(i, byte_len)
    \/ \E i \in 1..Len(streams), count \in TextSkips : SkipBits(i, count)
    \/ \E i \in 1..Len(streams), count \in TextWindows : ReadBits(i, count)

SpecString == InitText /\ [][NextString]_vars

----------------------------------------------------------------------------
(* The derived readers (bitstream_reader_derive).  The macro turns a type   *)
(* definition into the body of its read function; a definition is a type    *)
(* descriptor and the expansion an operator on the stream.                  *)
(*   enum:   [kind |-> "enum", name, discriminant_bits, variants], a        *)
(*           variant being [explicit, attr, field]: the `= N` of the        *)
(*           variant, its #[discriminant = N] and its unnamed field, each   *)
(*           <<>> when absent; a value is [variant |-> k, field |-> ..]     *)
(*   struct: [kind |-> "struct", fields], a field being [type, size] with   *)
(*           size <<>>, <<"size", n>>, <<"size_field", j>> (the value of    *)
(*           field j) or <<"size_bits", n>>; a value is the sequence of     *)
(*           the values of the fields                                       *)

USize == [bits |-> WordBits, signed |-> FALSE]

UnmatchedDiscriminant(d, n) ==
    [kind |-> "UnmatchedDiscriminant", discriminant |-> d, enum_name |-> n]

\* "as isize" of a usize
AsISize(d) == IF d >= Word \div 2 THEN d - Word ELSE d

\* the loop over data.variants from variant k on, last_discriminant being
\* that of variant k - 1 (-1 before the first)
RECURSIVE discriminants_from(_, _, _)
discriminants_from(variants, k, last_discriminant) ==
    IF k > Len(variants) THEN <<>>
    ELSE LET v == variants[k]
             discriminant == IF v.explicit # <<>> THEN v.explicit[1]
                             ELSE IF v.attr # <<>> THEN v.attr[1]
                             ELSE (last_discriminant + 1) % Word
         IN  <<discriminant>>
                \o discriminants_from(variants, k + 1, AsISize(discriminant))

\* discriminants numbering every variant by its position
discriminants_m(variants) == [k \in 1..Len(variants) |-> k - 1]

discriminants(variants) == discriminants_from(variants, 1, -1)

\* Arms taking the bits read as the position of the variant
Arms_m(E, d) == {k \in 1..Len(E.variants) : k = d + 1}

\* the arms of "match discriminant" that match d: the variants whose
\* discriminant is d
Arms(E, d) == {k \in 1..Len(E.variants) : discriminants(E.variants)[k] = d}

\* the first arm of a non-empty set of arms
FirstArm(arms) == CHOOSE k \in arms : \A m \in arms : k <= m

\* the value of an arm with an unnamed field: Name::Variant(stream.read()?),
\* v being the outcome of the read and d that of the discriminant's
variant_value(d, k, v) ==
    IF ~IsOk(v.res) THEN [v EXCEPT !.ovf = @ \/ d.ovf]
    ELSE [self |-> v.self,
          res |-> Ok([variant |-> k, field |-> <<v.res.value>>]),
          ovf |-> d.ovf \/ v.ovf]

\* the arm of variant k
match_arm(d, E, k) ==
    IF E.variants[k].field = <<>>
    THEN [self |-> d.self, res |-> Ok([variant |-> k, field |-> <<>>]), ovf |-> d.ovf]
    ELSE variant_value(d, k, read_T(d.self, E.variants[k].field[1]))

\* "Ok(match discriminant { arms, _ => return Err(UnmatchedDiscriminant) })",
\* d being the outcome of reading the discriminant
match_discriminant(d, E) ==
    IF ~IsOk(d.res) THEN d
    ELSE IF Arms(E, d.res.value) = {}
    THEN [self |-> d.self,
          res |-> UnmatchedDiscriminant(d.res.value, E.name),
          ovf |-> d.ovf]
    ELSE match_arm(d, E, FirstArm(Arms(E, d.res.value)))

\* the body derived for an enum: read the discriminant, then the variant
read_enum(self, E) ==
    match_discriminant(read_int(self, E.discriminant_bits, USize), E)

\* get_field_size: the expression of "let size: usize = .." for a field f
\* that has a size, given the values of the fields read so far
get_field_size(self, f, values) ==
    IF f.size[1] = "size"
    THEN [self |-> self, res |-> Ok(f.size[2]), ovf |-> FALSE]
    ELSE IF f.size[1] = "size_field"
    THEN [self |-> self, res |-> Ok(values[f.size[2]] % Word), ovf |-> FALSE]
    ELSE read_int(self, f.size[2], USize)

\* "let name: T = stream.read_sized(size)?", size being the outcome of the
\* size expression
read_sized_field(f, size) ==
    IF ~IsOk(size.res) THEN size
    ELSE [read_sized_T(size.self, f.type, size.res.value)
             EXCEPT !.ovf = @ \/ size.ovf]

\* read_field reading every field with read(), its size attributes unused
read_field_m(self, f, values) == read_T(self, f.type)

\* one field of a struct: read_sized when it has a size, read() otherwise
read_field(self, f, values) ==
    IF f.size = <<>> THEN read_T(self, f.type)
    ELSE read_sized_field(f, get_field_size(self, f, values))

\* the fields from field k on, in declaration order, values holding those
\* read so far; after_field continues from the outcome v of field k
RECURSIVE read_fields(_, _, _, _)
RECURSIVE after_field(_, _, _, _)
read_fields(self, fields, k, values) ==
    IF k > Len(fields) THEN [self |-> self, res |-> Ok(values), ovf |-> FALSE]
    ELSE after_field(fields, k, values, read_field(self, fields[k], values))

after_field(fields, k, values, v) ==
    IF ~IsOk(v.res) THEN v
    ELSE [read_fields(v.self, fields, k + 1, Append(values, v.res.value))
             EXCEPT !.ovf = @ \/ v.ovf]

\* the body derived for a struct
read_struct(self, S) == read_fields(self, S.fields, 1, <<>>)

\* BitRead::read of a derived type
read_derived(self, T) ==
    IF T.kind = "enum" THEN read_enum(self, T) ELSE read_struct(self, T)

Unit == [explicit |-> <<>>, attr |-> <<>>, field |-> <<>>]
I8 == [bits |-> 8, signed |-> TRUE]
\* enum TestBareEnum { Foo, Bar, Asd = 3 }
TestBareEnum ==
    [kind |-> "enum", name |-> "TestBareEnum", discriminant_bits |-> 2,
     variants |-> <<Unit, Unit, [Unit EXCEPT !.explicit = <<3>>]>>]
\* enum TestUnnamedFieldEnum { Foo(i8), Bar(bool), #[discriminant = 3] Asd(u8) }
TestUnnamedFieldEnum ==
    [kind |-> "enum", name |-> "TestUnnamedFieldEnum", discriminant_bits |-> 2,
     variants |-> <<[Unit EXCEPT !.field = <<TInt(I8)>>],
                    [Unit EXCEPT !.field = <<TBool>>],
                    [Unit EXCEPT !.attr = <<3>>, !.field = <<TInt(U8)>>]>>]
\* an enum whose first variant is numbered, with variants after a numbered
\* one: { A = 1, B, #[discriminant = 5] C(bool), D }
TestShiftedEnum ==
    [kind |-> "enum", name |-> "TestShiftedEnum", discriminant_bits |-> 3,
     variants |-> <<[Unit EXCEPT !.explicit = <<1>>],
                    Unit,
                    [Unit EXCEPT !.attr = <<5>>, !.field = <<TBool>>],
                    Unit>>]
Field(T) == [type |-> T, size |-> <<>>]
\* struct { foo: u8, #[size = 3] asd: u8, #[size = "asd"] previous_field: u8 }
TestStruct ==
    [kind |-> "struct",
     fields |-> <<Field(TInt(U8)),
                  [type |-> TInt(U8), size |-> <<"size", 3>>],
                  [type |-> TInt(U8), size |-> <<"size_field", 2>>]>>]
\* struct { #[size_bits = 2] dynamic_length: u8, flag: bool,
\*          #[size = 2] list: Vec<u8> }
TestDynamicStruct ==
    [kind |-> "struct",
     fields |-> <<[type |-> TInt(U8), size |-> <<"size_bits", 2>>],
                  Field(TBool),
                  [type |-> TVec(TInt(U8)), size |-> <<"size", 2>>]>>]
DerivedTypes ==
    {TestBareEnum, TestUnnamedFieldEnum, TestShiftedEnum, TestStruct, TestDynamicStruct}
\* positions from which the derived readers are tried
DeriveCounts == {3, 13, 47}

ReadDerived(i, T) == Return(i, "read", <<T>>, read_derived(streams[i], T))

NextDerive ==
    \/ \E i \in 1..Len(streams), T \in DerivedTypes : ReadDerived(i, T)
    \/ \E i \in 1..Len(streams), count \in DeriveCounts : SkipBits(i, count)
    \/ \E i \in 1..Len(streams), count \in DeriveCounts : ReadBits(i, count)

SpecDerive == Init /\ [][NextDerive]_vars

----------------------------------------------------------------------------
(* Vocabulary of the properties *)

\* the receiver of the last call, before and after it
Before == last.before[last.s]
After == streams[last.s]
Called(op) == last.op = op
Returned == last.op # "new" /\ last.res.kind # "Panic"
Failed == Returned /\ ~IsOk(last.res)

\* the values the public getters return
Pos(s) == pos(s).v
BitLen(s) == bit_len(s).v
BitsLeft(s) == bits_left(s).v

\* a stream other than the top-level one whose origin is not bit 0
Derived(s) == s.start_pos > 0
\* same position, length and remaining bits
SameView(s, t) == Pos(s) = Pos(t) /\ BitLen(s) = BitLen(t) /\ BitsLeft(s) = BitsLeft(t)

----------------------------------------------------------------------------
\* C1: read_bool, read_int(count), read_float and read_bytes(byte_count)
\* advance pos() by exactly 1, count, 32 or 64, and 8 * byte_count bits when
\* they succeed and leave pos() unchanged when they fail; read_string leaves
\* pos() unchanged when it fails with NotEnoughData.
C1_CursorAdvance ==
    /\ Called("read_bool") /\ Returned =>
          Pos(After) = Pos(Before) + (IF IsOk(last.res) THEN 1 ELSE 0)
    /\ Called("read_int") /\ Returned =>
          Pos(After) = Pos(Before) + (IF IsOk(last.res) THEN last.arg[1] ELSE 0)
    /\ Called("read_float") /\ Returned =>
          /\ last.arg[1] \in {32, 64}
          /\ Pos(After) = Pos(Before) + (IF IsOk(last.res) THEN last.arg[1] ELSE 0)
    /\ Called("read_bytes") /\ Returned =>
          Pos(After) = Pos(Before) + (IF IsOk(last.res) THEN 8 * last.arg[1] ELSE 0)
    /\ Called("read_string") /\ last.res.kind = "NotEnoughData" =>
          Pos(After) = Pos(Before)

\* a read of 16 bits succeeded on a stream whose origin is not bit 0
C1_Witness ==
    /\ Called("read_int") /\ IsOk(last.res) /\ last.arg[1] = 16
    /\ Derived(Before)
    /\ Pos(After) = Pos(Before) + 16

----------------------------------------------------------------------------
\* the request of the last call in bits, for the reads that take a length
Requested ==
    IF Called("read_bool") THEN 1
    ELSE IF Called("read_int") \/ Called("read_float") THEN last.arg[1]
    ELSE 8 * last.arg[1]

\* C2: every live stream keeps start_pos <= pos <= start_pos + bit_len(),
\* where start_pos + bit_len() is the logical end of its buffer, after any
\* sequence of checked calls.
C2_CursorInWindow ==
    \A i \in 1..Len(streams) :
        /\ streams[i].start_pos <= streams[i].pos
        /\ streams[i].pos <= streams[i].buffer.bit_len


\* C3: a successful read_bits(n) advances pos() of the receiver by exactly n
\* and returns a stream with pos() = 0 and bit_len() = n; a read on a derived
\* stream that would pass the end of its window fails with NotEnoughData.
C3_SubStreamIsolation ==
    /\ Called("read_bits") /\ IsOk(last.res) =>
          /\ Pos(After) = Pos(Before) + last.arg[1]
          /\ Pos(last.res.value) = 0
          /\ BitLen(last.res.value) = last.arg[1]
    /\ /\ \/ Called("read_bool") \/ Called("read_float") \/ Called("read_bytes")
          \/ Called("read_int") /\ last.arg[1] <= last.arg[2].bits
          \/ Called("read_string") /\ last.arg # <<>>
       /\ Returned
       /\ last.s > 1
       /\ Pos(Before) + Requested > BitLen(Before)
       => last.res.kind = "NotEnoughData"


\* C4: read_bits(count) with count > bits_left() returns an error, produces
\* no stream and leaves every stream as it was.
C4_ReadBitsFails ==
    Called("read_bits") /\ last.arg[1] > BitsLeft(Before) =>
        /\ Failed
        /\ streams = last.before


\* C5: the clone of a stream has pos() = 0, the bits_left() of the original
\* and a bit_len() equal to it; its origin is the cursor of the original,
\* and a set_pos(p) it accepts puts it p bits after that origin.
C5_CloneResetsOrigin ==
    Called("clone") =>
        /\ IsOk(last.res)
        /\ Pos(last.res.value) = 0
        /\ BitsLeft(last.res.value) = BitsLeft(Before)
        /\ BitLen(last.res.value) = BitsLeft(Before)
        /\ last.res.value.start_pos = Before.pos
        /\ \A p \in Counts :
              IsOk(set_pos(last.res.value, p).res) =>
                  Pos(set_pos(last.res.value, p).self) = p

\* a sub-stream was cloned after it had consumed bits
C5_Witness ==
    /\ Called("clone")
    /\ Pos(Before) > 0
    /\ BitsLeft(Before) > 0
    /\ Before.buffer.bit_len < PhysBits
    /\ BitLen(last.res.value) = BitsLeft(Before)

----------------------------------------------------------------------------
\* C6: a call on one stream leaves pos(), bit_len() and bits_left() of every
\* other live stream unchanged: a derived stream is not affected by calls on
\* its parent, nor the parent by calls on the derived stream.
C6_StreamsIndependent ==
    \A j \in 1..Len(last.before) :
        j # last.s => SameView(streams[j], last.before[j])

\* the parent moved after a sub-stream had been derived from it and moved
C6_Witness ==
    /\ Len(last.before) >= 2
    /\ last.s = 1
    /\ Pos(After) # Pos(Before)
    /\ Pos(streams[2]) > 0
    /\ SameView(streams[2], last.before[2])

\* C7: a successful align() moves the cursor to the least multiple of 8 that
\* is >= pos(), positions being relative to the origin of the stream, and
\* returns the number of bits skipped: 0, without moving, when pos() is a
\* multiple of 8.
C7_AlignRelative ==
    Called("align") /\ IsOk(last.res) =>
        /\ Pos(After) = ((Pos(Before) + 7) \div 8) * 8
        /\ last.res.value = Pos(After) - Pos(Before)

\* C8: set_pos(p) succeeds exactly when p <= bit_len(), and then pos() = p,
\* p bits after the origin of the stream; otherwise it returns
\* IndexOutOfBounds{pos: p, size: bit_len()} and leaves the cursor unchanged.
C8_SetPos ==
    Called("set_pos") =>
        IF last.arg[1] <= BitLen(Before)
        THEN /\ IsOk(last.res)
             /\ Pos(After) = last.arg[1]
             /\ After.pos = Before.start_pos + last.arg[1]
        ELSE /\ last.res = IndexOutOfBounds(last.arg[1], BitLen(Before))
             /\ After = Before

\* set_pos(bit_len()) was accepted on a stream whose origin is not bit 0
C8_Witness ==
    /\ Called("set_pos") /\ IsOk(last.res)
    /\ Derived(Before)
    /\ last.arg[1] = BitLen(Before)
    /\ last.arg[1] > 0
    /\ BitsLeft(After) = 0

\* C9: skip_bits(count) advances pos() by exactly count when
\* count <= bits_left(), and otherwise returns
\* NotEnoughData{requested: count, bits_left: bits_left()} and leaves the
\* cursor unchanged.
C9_SkipBits ==
    Called("skip_bits") =>
        IF last.arg[1] <= BitsLeft(Before)
        THEN /\ IsOk(last.res)
             /\ Pos(After) = Pos(Before) + last.arg[1]
        ELSE /\ last.res = NotEnoughData(last.arg[1], BitsLeft(Before))
             /\ After = Before

\* skip_bits consumed all the bits left of a window with a non-zero origin
C9_Witness ==
    /\ Called("skip_bits") /\ IsOk(last.res)
    /\ Derived(Before)
    /\ last.arg[1] > 0
    /\ last.arg[1] = BitsLeft(Before)
    /\ Before.buffer.bit_len < PhysBits

\* C10: check_read(count) changes nothing, returns Ok exactly when
\* count <= bits_left(), and an error it returns is the NotEnoughData that
\* read_int(count), skip_bits(count) and read_bits(count) return in the same
\* state.
C10_CheckReadSameError ==
    Called("check_read") =>
        /\ streams = last.before
        /\ IsOk(last.res) <=> last.arg[1] <= BitsLeft(Before)
        /\ ~IsOk(last.res) =>
              /\ \A a \in IntArgs :
                    read_int(Before, last.arg[1], a[2]).res.kind = "NotEnoughData"
                    => read_int(Before, last.arg[1], a[2]).res = last.res
              /\ skip_bits(Before, last.arg[1]).res = last.res
              /\ read_bits(Before, last.arg[1]).res.kind = "NotEnoughData"
                    => read_bits(Before, last.arg[1]).res = last.res

\* C10 without read_bits (informative): check_read agrees with read_int and
\* skip_bits
C10_CheckReadSameErrorAsReads ==
    Called("check_read") =>
        /\ streams = last.before
        /\ IsOk(last.res) <=> last.arg[1] <= BitsLeft(Before)
        /\ ~IsOk(last.res) =>
              /\ \A a \in IntArgs :
                    read_int(Before, last.arg[1], a[2]).res.kind = "NotEnoughData"
                    => read_int(Before, last.arg[1], a[2]).res = last.res
              /\ skip_bits(Before, last.arg[1]).res = last.res

----------------------------------------------------------------------------
\* the calls that ask for a number of bits, and that number
AsksBits ==
    \/ Called("read_bool") \/ Called("read_float") \/ Called("read_bytes")
    \/ Called("read_int") /\ last.arg[1] <= last.arg[2].bits
    \/ Called("read_string") /\ last.arg # <<>>
    \/ Called("skip_bits") \/ Called("read_bits")

AskedBits ==
    IF Called("skip_bits") \/ Called("read_bits") THEN last.arg[1] ELSE Requested

\* C11: a call asking for k bits that fails for lack of data while
\* r = bits_left() < k returns exactly NotEnoughData{requested: k,
\* bits_left: r}, k and r measured in the window of the stream, on top-level
\* and on derived streams.
C11_ErrorContent ==
    /\ AsksBits
    /\ Failed
    /\ AskedBits < Word
    /\ BitsLeft(Before) < AskedBits
    => last.res = NotEnoughData(AskedBits, BitsLeft(Before))

\* C11 for every call but read_bits (informative): the reads and skip_bits
\* report the request and the bits left of the window
C11_ErrorContentButReadBits ==
    /\ AsksBits
    /\ ~Called("read_bits")
    /\ Failed
    /\ AskedBits < Word
    /\ BitsLeft(Before) < AskedBits
    => last.res = NotEnoughData(AskedBits, BitsLeft(Before))

----------------------------------------------------------------------------
\* C12: read<T> and read_sized<T>(size), T composite included, leave pos()
\* at its value before the call when they return an error (the advance of
\* read_string on malformed UTF-8 set aside).
C12_GenericReadAtomic ==
    /\ Called("read") \/ Called("read_sized")
    /\ Failed
    /\ last.res.kind # "Utf8Error"
    => Pos(After) = Pos(Before)

\* C12 for the types read in one step (informative): integers and bool
C12_PrimitiveReadAtomic ==
    /\ Called("read") \/ Called("read_sized")
    /\ last.arg[1].kind \in {"int", "bool", "float"}
    /\ Failed
    => Pos(After) = Pos(Before)

----------------------------------------------------------------------------
\* C13: a successful read_string(Some(n)) advances pos() by exactly 8 * n
\* bits whatever the bytes hold, and returns the n bytes up to, not
\* including, the first NUL among them (all n when none is NUL).
C13_FixedString ==
    Called("read_string") /\ last.arg # <<>> /\ IsOk(last.res) =>
        /\ Pos(After) = Pos(Before) + 8 * last.arg[1]
        /\ last.res.value = UpToNul(BytesAt(Before.pos, last.arg[1]))

\* five bytes holding a NUL were read as a string shorter than five bytes
C13_Witness ==
    /\ Called("read_string") /\ last.arg = <<5>> /\ IsOk(last.res)
    /\ Len(last.res.value) > 0
    /\ Len(last.res.value) < 5
    /\ Pos(After) = Pos(Before) + 40

----------------------------------------------------------------------------
\* C14: a successful read_string(None) returns the bytes from the current
\* position up to the first NUL and advances pos() by exactly
\* (byte length of the returned string + 1) * 8 bits.
C14_TerminatedString ==
    Called("read_string") /\ last.arg = <<>> /\ IsOk(last.res) =>
        /\ last.res.value = ScanToNul(Before.pos)
        /\ Pos(After) = Pos(Before) + (Len(last.res.value) + 1) * 8

\* C14 amended: a successful read_string(None) whose string and terminator
\* lie within the bits left of the stream returns the bytes from the current
\* position up to the first NUL and advances pos() by exactly
\* (byte length of the returned string + 1) * 8 bits.
C14_TerminatedStringInWindow ==
    /\ Called("read_string") /\ last.arg = <<>> /\ IsOk(last.res)
    /\ (Len(ScanToNul(Before.pos)) + 1) * 8 <= BitsLeft(Before)
    => /\ last.res.value = ScanToNul(Before.pos)
       /\ Pos(After) = Pos(Before) + (Len(last.res.value) + 1) * 8

\* a NUL-terminated string holding a two-byte code point was read whole
C14_Witness ==
    /\ Called("read_string") /\ last.arg = <<>> /\ IsOk(last.res)
    /\ (Len(ScanToNul(Before.pos)) + 1) * 8 <= BitsLeft(Before)
    /\ Len(last.res.value) = 4
    /\ Pos(After) = Pos(Before) + 40

----------------------------------------------------------------------------
\* the string the buffer returns for the last call, a read_string
BufferString == buffer_read_string(Before.buffer, Before.pos, last.arg).res.value

\* s is a prefix of t
IsPrefix(s, t) == Len(s) <= Len(t) /\ s = SubSeq(t, 1, Len(s))

\* C15: when the string the buffer returns would consume more bits than
\* bits_left(), read_string returns its longest prefix of whole code points
\* of at most bits_left() / 8 bytes and advances pos() by exactly 8 times
\* the byte length of that prefix, never past the end of the window.
C15_TruncatedString ==
    /\ Called("read_string") /\ IsOk(last.res)
    /\ consumed(last.arg, Len(BufferString)).v > BitsLeft(Before)
    => /\ IsPrefix(last.res.value, BufferString)
       /\ IsUtf8(last.res.value)
       /\ Len(last.res.value) <= BitsLeft(Before) \div 8
       /\ \/ last.res.value = BufferString
          \/ Len(last.res.value) + CharLen(BufferString, Len(last.res.value) + 1)
                > BitsLeft(Before) \div 8
       /\ Pos(After) = Pos(Before) + 8 * Len(last.res.value)
       /\ Pos(After) <= BitLen(After)

\* a window of two whole bytes over "HéA": the two-byte code point is not
\* split, the string returned is "H"
C15_Witness ==
    /\ Called("read_string") /\ IsOk(last.res)
    /\ BitsLeft(Before) \div 8 = 2
    /\ Len(BufferString) = 4
    /\ Len(last.res.value) = 1
    /\ CharLen(BufferString, 2) = 2
    /\ Pos(After) = Pos(Before) + 8

----------------------------------------------------------------------------
\* the bytes the buffer failed to decode for the last call, a read_string
BufferBytes == buffer_read_string(Before.buffer, Before.pos, last.arg).res.bytes

\* C16: when read_string fails with Utf8Error the cursor still advances, by
\* 8 * n bits for Some(n) and by
\* min((invalid_byte_offset + 1) * 8, bits_left_in_bytes) for None:
\* invalid_byte_offset is the offset of the first invalid byte from the read
\* position and bits_left_in_bytes is bits_left() / 8.
C16_Utf8ErrorAdvance ==
    Called("read_string") /\ last.res.kind = "Utf8Error" =>
        IF last.arg # <<>>
        THEN Pos(After) = Pos(Before) + 8 * last.arg[1]
        ELSE Pos(After) = Pos(Before)
                + Min((ValidUpTo(BufferBytes) + 1) * 8, BitsLeft(Before) \div 8)

\* C16 with the advance bounded by the whole bytes left, in bits
\* (informative): the other reading of bits_left_in_bytes
C16_Utf8ErrorAdvanceWholeBytes ==
    Called("read_string") /\ last.res.kind = "Utf8Error" =>
        IF last.arg # <<>>
        THEN Pos(After) = Pos(Before) + 8 * last.arg[1]
        ELSE Pos(After) = Pos(Before)
                + Min((ValidUpTo(BufferBytes) + 1) * 8, (BitsLeft(Before) \div 8) * 8)

\* what the code does (informative): the length of all the bytes scanned,
\* and bits_left() / 8 taken as a number of bits
C16_Utf8ErrorAdvanceAsCoded ==
    Called("read_string") /\ last.res.kind = "Utf8Error" =>
        IF last.arg # <<>>
        THEN Pos(After) = Pos(Before) + 8 * last.arg[1]
        ELSE Pos(After) = Pos(Before)
                + Min((Len(BufferBytes) + 1) * 8, BitsLeft(Before) \div 8)

----------------------------------------------------------------------------
----------------------------------------------------------------------------
\* k bits from the cursor of s lie within its window
InBounds(s, k) == s.start_pos <= s.pos /\ s.pos + k <= s.buffer.bit_len

\* the last call, an unchecked read, returned the value of the checked
\* outcome o and left the stream where o leaves it
SameAsChecked(o) ==
    /\ IsOk(o.res)
    /\ last.res = Value(o.res.value)
    /\ Pos(After) = Pos(o.self)

\* C18: for a request in bounds (the bits asked are <= bits_left(), and
\* count <= the width of T for integers) read_bool_unchecked,
\* read_int_unchecked, read_float_unchecked and read_bytes_unchecked return
\* the value of their checked counterpart and leave the stream at the same
\* pos().
C18_UncheckedAgrees ==
    /\ (Called("read_bool_unchecked") /\ InBounds(Before, 1))
          => SameAsChecked(read_bool(Before))
    /\ (/\ Called("read_int_unchecked")
        /\ last.arg[1] <= last.arg[2].bits
        /\ InBounds(Before, last.arg[1]))
          => SameAsChecked(read_int(Before, last.arg[1], last.arg[2]))
    /\ (Called("read_float_unchecked") /\ InBounds(Before, last.arg[1]))
          => SameAsChecked(read_float(Before, last.arg[1]))
    /\ (Called("read_bytes_unchecked") /\ InBounds(Before, 8 * last.arg[1]))
          => SameAsChecked(read_bytes(Before, last.arg[1]))

\* a byte was read unchecked, in bounds, at a bit position that is not a
\* multiple of 8, on a stream whose origin is not bit 0
C18_Witness ==
    /\ Called("read_bytes_unchecked") /\ last.arg[1] = 1
    /\ InBounds(Before, 8)
    /\ Derived(Before)
    /\ Before.pos % 8 # 0
    /\ last.res = Value(BytesAt(Before.pos, 1))
    /\ Pos(After) = Pos(Before) + 8

----------------------------------------------------------------------------
\* C19: when pos + count (read_bits), byte_count * 8 (read_bytes) or len * 8
\* (read_string(Some(len))) exceeds the largest machine word, the call
\* returns an error value and leaves every stream as it was: it neither
\* panics nor uses a wrapped length; and read_bits never returns a stream
\* whose origin lies beyond the bit_len of its buffer.
C19_NoOverflow ==
    /\ \/ Called("read_bits") /\ Before.pos + last.arg[1] >= Word
       \/ Called("read_bytes") /\ 8 * last.arg[1] >= Word
       \/ Called("read_string") /\ last.arg # <<>> /\ 8 * last.arg[1] >= Word
       => Failed /\ streams = last.before
    /\ Called("read_bits") /\ IsOk(last.res)
       => last.res.value.start_pos <= last.res.value.buffer.bit_len

\* C19 for read_string alone, on streams no overflowing read_bits has
\* touched (informative): a declared length whose bit count overflows is
\* refused by the buffer before the stream multiplies it
C19_ReadStringNoOverflow ==
    Called("read_string") /\ last.arg # <<>> /\ 8 * last.arg[1] >= Word
       => Failed /\ streams = last.before

----------------------------------------------------------------------------
\* the step is the second of two consecutive successful read_int calls on
\* one stream, of one unsigned type wide enough for both counts together
TwoReads ==
    /\ last.op = "read_int" /\ IsOk(last.res)
    /\ last'.op = "read_int" /\ IsOk(last'.res)
    /\ last'.s = last.s
    /\ last'.arg[2] = last.arg[2]
    /\ ~last.arg[2].signed
    /\ last.arg[1] + last'.arg[1] <= last.arg[2].bits

\* the single read of both counts from where the first read started
SingleRead ==
    read_int(last.before[last.s], last.arg[1] + last'.arg[1], last.arg[2]).res

\* C20: read_int(a) then read_int(b), both successful, of an unsigned type
\* with a + b <= width, compose to the single read_int(a + b) from the same
\* start: little-endian first | (second << a), big-endian
\* (first << b) | second.
C20_ReadsCompose ==
    [][TwoReads =>
          /\ IsOk(SingleRead)
          /\ SingleRead.value =
                IF endian = "LE"
                THEN last.res.value + last'.res.value * 2 ^ last.arg[1]
                ELSE last.res.value * 2 ^ last'.arg[1] + last'.res.value]_vars

\* the example of the documentation: the second call made on the stream is
\* read_int(3), it starts at bit 3 of 0b1011_0101, little-endian, and
\* returns 0b110 after 0b101
C20_Witness ==
    /\ bytes = DocBytes /\ endian = "LE"
    /\ ops = 2 /\ Len(streams) = 1
    /\ Called("read_int") /\ last.arg[1] = 3 /\ last.res = Ok(6)
    /\ Before.pos = 3
    /\ read_int(new(new_buffer), 3, last.arg[2]).res = Ok(5)
    /\ read_int(new(new_buffer), 6, last.arg[2]).res = Ok(5 + 6 * 2 ^ 3)

----------------------------------------------------------------------------
\* the derived enums that are read
DerivedEnums == {E \in DerivedTypes : E.kind = "enum"}

\* the last call read a derived enum, a derived struct
ReadEnum == Called("read") /\ last.arg[1].kind = "enum"
ReadStruct == Called("read") /\ last.arg[1].kind = "struct"

\* the discriminant_bits bits at the cursor of the receiver, unsigned
Tag == ReadUnsigned(Before.pos, last.arg[1].discriminant_bits)

\* the number of variant k of E by the rules: the value set on it, else 0
\* for the first variant, else one more than the variant before
RECURSIVE Numbered(_, _)
Numbered(E, k) ==
    LET v == E.variants[k]
    IN  IF v.explicit # <<>> THEN v.explicit[1]
        ELSE IF v.attr # <<>> THEN v.attr[1]
        ELSE IF k = 1 THEN 0
        ELSE Numbered(E, k - 1) + 1

\* C21: in a derived enum reader the first variant has discriminant 0 unless
\* set, a later variant without a value has the discriminant of the variant
\* before it plus one, and a value set with "= N" or #[discriminant = N]
\* replaces the default and shifts the numbers of the variants after it; the
\* variant a read decodes is the one the bits read number.
C21_Discriminants ==
    /\ \A E \in DerivedEnums : \A k \in 1..Len(E.variants) :
          discriminants(E.variants)[k] = Numbered(E, k)
    /\ ReadEnum /\ IsOk(last.res) =>
          Tag = Numbered(last.arg[1], last.res.value.variant)

\* the read decoded the last variant of { A = 1, B, #[discriminant = 5] C(bool), D }
\* from the bits 6: the variant after the one set to 5
C21_Witness ==
    /\ ReadEnum /\ last.arg[1] = TestShiftedEnum
    /\ IsOk(last.res) /\ last.res.value.variant = 4
    /\ Tag = 6

----------------------------------------------------------------------------
\* C22: a derived enum reader reads discriminant_bits bits as an unsigned
\* integer and decodes the variant whose discriminant is that value; when no
\* variant has it the reader returns UnmatchedDiscriminant with the value
\* read and the name of the enum, the bits consumed, and it does not panic.
C22_UnmatchedDiscriminant ==
    ReadEnum =>
       LET E == last.arg[1]
           matching == {k \in 1..Len(E.variants) : Numbered(E, k) = Tag}
       IN  /\ last.res.kind # "Panic"
           /\ BitsLeft(Before) < E.discriminant_bits =>
                 last.res = NotEnoughData(E.discriminant_bits, BitsLeft(Before))
           /\ (BitsLeft(Before) >= E.discriminant_bits /\ matching = {}) =>
                 /\ last.res = UnmatchedDiscriminant(Tag, E.name)
                 /\ Pos(After) = Pos(Before) + E.discriminant_bits
           /\ (BitsLeft(Before) >= E.discriminant_bits /\ matching # {}) =>
                 /\ last.res.kind # "UnmatchedDiscriminant"
                 /\ IsOk(last.res) => last.res.value.variant \in matching
                 /\ IsOk(last.res) /\ E.variants[last.res.value.variant].field # <<>> =>
                       Ok(last.res.value.field[1]) =
                          read([Before EXCEPT !.pos = @ + E.discriminant_bits],
                               E.variants[last.res.value.variant].field[1]).res

\* the bits 0b10 were read for enum TestBareEnum { Foo, Bar, Asd = 3 }
C22_Witness ==
    /\ ReadEnum /\ last.arg[1] = TestBareEnum
    /\ Tag = 2
    /\ last.res = UnmatchedDiscriminant(2, "TestBareEnum")

----------------------------------------------------------------------------
\* the read of field f by the rules, from stream s, values being the values
\* of the fields before it
FieldByRule(s, f, values) ==
    IF f.size = <<>> THEN read(s, f.type)
    ELSE IF f.size[1] = "size" THEN read_sized(s, f.type, f.size[2])
    ELSE IF f.size[1] = "size_field"
    THEN read_sized(s, f.type, values[f.size[2]])
    ELSE LET n == read_int(s, f.size[2], USize)
         IN  IF IsOk(n.res) THEN read_sized(n.self, f.type, n.res.value) ELSE n

\* the fields k.. of a struct read one after the other, stopping at the
\* first that fails
RECURSIVE InOrder(_, _, _, _)
InOrder(s, fields, k, values) ==
    IF k > Len(fields) THEN [self |-> s, res |-> Ok(values)]
    ELSE LET v == FieldByRule(s, fields[k], values)
         IN  IF IsOk(v.res)
             THEN InOrder(v.self, fields, k + 1, Append(values, v.res.value))
             ELSE [self |-> v.self, res |-> v.res]

\* C23: a derived struct reader reads its fields in declaration order: a
\* field with a size attribute with read_sized(size), the size an integer
\* literal or the value of an earlier field, a field with size_bits = N by
\* reading N bits as an unsigned integer and using them as the size of
\* read_sized, a field with neither with read(); the error of the first
\* field that fails is returned and no later field is read.
C23_StructFieldsInOrder ==
    ReadStruct /\ Returned =>
       /\ last.res = InOrder(Before, last.arg[1].fields, 1, <<>>).res
       /\ After = InOrder(Before, last.arg[1].fields, 1, <<>>).self

\* struct { foo: u8, #[size = 3] asd: u8, #[size = "asd"] previous_field: u8 }
\* was read with asd = 5: 8, 3 and 5 bits
C23_Witness ==
    /\ ReadStruct /\ last.arg[1] = TestStruct
    /\ IsOk(last.res) /\ last.res.value[2] = 5
    /\ Pos(After) = Pos(Before) + 8 + 3 + 5
    /\ last.res.value[3] = ReadUnsigned(Before.pos + 11, 5)

\* struct { #[size_bits = 2] dynamic_length: u8, flag: bool, .. } failed in
\* its last field, after the three bits of the fields before it
C23_WitnessFailure ==
    /\ ReadStruct /\ last.arg[1] = TestDynamicStruct
    /\ last.res.kind = "NotEnoughData"
    /\ Pos(After) > Pos(Before)

----------------------------------------------------------------------------
\* the bits from pos() to the next multiple of 8 of pos()
NeededToAlign(s) == (8 - (Pos(s) % 8)) % 8

\* C24: align() returns NotEnoughData exactly when the number of bits needed
\* to reach the next multiple of 8 of pos() is greater than bits_left(), the
\* cursor then unchanged; in every other state align() succeeds.
C24_AlignError ==
    Called("align") /\ Returned =>
        IF NeededToAlign(Before) > BitsLeft(Before)
        THEN /\ last.res.kind = "NotEnoughData"
             /\ After = Before
        ELSE IsOk(last.res)

\* align() as coded: the bits needed are those to the next multiple of 8 of
\* the absolute cursor, from bit 0 of the storage
C24_AlignErrorAbsolute ==
    Called("align") /\ Returned =>
        IF (8 - (Before.pos % 8)) % 8 > BitsLeft(Before)
        THEN /\ last.res = NotEnoughData((8 - (Before.pos % 8)) % 8, BitsLeft(Before))
             /\ After = Before
        ELSE IsOk(last.res)

----------------------------------------------------------------------------
\* the result of reading k bits, unsigned, at relative position q of s
ReadAt(s, q, k) == read_int(set_pos(s, q).self, k, U8).res

\* C25: k bits read at relative position q of the sub-stream that read_bits(n)
\* returned when the parent was at relative position p0 are the k bits the
\* parent reads at relative position p0 + q, for all q + k <= n; after
\* read_bits(n) the parent continues with the bits that follow the window.
C25_SubStreamReadsParentBits ==
    Called("read_bits") /\ IsOk(last.res) =>
        LET n == last.arg[1]
            p0 == Pos(Before)
            sub == last.res.value
        IN  /\ \A q \in 0..n : \A k \in 0..Min(n - q, 8) :
                  /\ IsOk(ReadAt(sub, q, k))
                  /\ ReadAt(sub, q, k) = ReadAt(Before, p0 + q, k)
            /\ Pos(After) = p0 + n
            /\ \A k \in 0..8 : read_int(After, k, U8).res = ReadAt(Before, p0 + n, k)

\* the same for the counts whose window ends within a usize: the sum
\* pos + count of read_bits does not wrap
C25_SubStreamReadsParentBitsInWord ==
    Called("read_bits") /\ Before.pos + last.arg[1] < Word
       => C25_SubStreamReadsParentBits

----------------------------------------------------------------------------
\* the stream after i consecutive successful read::<T>() from s
RECURSIVE AfterReads(_, _, _)
AfterReads(s, T, i) == IF i = 0 THEN s ELSE read(AfterReads(s, T, i - 1), T).self

\* the last call was read_sized::<Vec<T>>(n)
ReadVec == Called("read_sized") /\ last.arg[1].kind = "vec"

\* C26: a successful read_sized::<Vec<T>>(n) returns exactly n elements, the
\* i-th the result of the i-th consecutive read::<T>() from the starting
\* position, and advances the cursor by the bits those n reads consume; with
\* n = 0 it returns an empty vector and does not move the cursor.
C26_VecElements ==
    ReadVec /\ IsOk(last.res) =>
        LET T == last.arg[1].of
            n == last.arg[2]
        IN  /\ Len(last.res.value) = n
            /\ \A i \in 1..n :
                  read(AfterReads(Before, T, i - 1), T).res = Ok(last.res.value[i])
            /\ After = AfterReads(Before, T, n)
            /\ n = 0 => last.res.value = <<>> /\ Pos(After) = Pos(Before)

\* a Vec<Option<bool>> of 3 elements was read from a window starting inside
\* the storage, one element None and one Some: between 4 and 5 bits
C26_Witness ==
    /\ ReadVec /\ IsOk(last.res) /\ last.arg = <<TVec(TOption(TBool)), 3>>
    /\ Derived(Before)
    /\ \E i, j \in 1..3 : last.res.value[i] = <<>> /\ last.res.value[j] # <<>>
    /\ Pos(After) - Pos(Before) \in {4, 5}

\* read_sized::<Vec<u8>>(0) returned the empty vector at a position > 0
C26_WitnessEmpty ==
    /\ ReadVec /\ last.arg[2] = 0 /\ last.res = Ok(<<>>)
    /\ Pos(Before) > 0 /\ After = Before

----------------------------------------------------------------------------
\* the last call was read::<Option<T>>()
ReadOption == Called("read") /\ last.arg[1].kind = "option"

\* the receiver one bit further
AfterFlag == [Before EXCEPT !.pos = @ + 1]

\* C27: read::<Option<T>>() consumes one flag bit first: with the flag 0 it
\* returns None and the cursor has advanced by exactly 1 bit; with the flag
\* 1 it returns Some(v), v the result of read::<T>() at the next bit, and
\* the cursor has advanced by 1 plus the bits consumed by T.
C27_OptionFlag ==
    ReadOption /\ Returned /\ BitsLeft(Before) >= 1 =>
        IF Bit(Before.pos) = 0
        THEN /\ last.res = Ok(<<>>)
             /\ Pos(After) = Pos(Before) + 1
        ELSE LET v == read(AfterFlag, last.arg[1].of)
             IN  /\ IsOk(v.res) => last.res = Ok(<<v.res.value>>)
                 /\ IsOk(last.res) => last.res = Ok(<<v.res.value>>)
                 /\ Pos(After) = Pos(Before) + 1 + (Pos(v.self) - Pos(AfterFlag))

\* an Option<u8> was read with the flag 1 from a window starting inside the
\* storage: Some of the 8 bits after the flag, 9 bits in all
C27_Witness ==
    /\ ReadOption /\ last.arg[1] = TOption(TInt(U8))
    /\ Derived(Before)
    /\ Bit(Before.pos) = 1
    /\ last.res = Ok(<<ReadUnsigned(Before.pos + 1, 8)>>)
    /\ Pos(After) = Pos(Before) + 9

\* an Option<u8> was read with the flag 0: None, one bit
C27_WitnessNone ==
    /\ ReadOption /\ last.arg[1] = TOption(TInt(U8))
    /\ Bit(Before.pos) = 0 /\ Pos(Before) > 0
    /\ last.res = Ok(<<>>)
    /\ Pos(After) = Pos(Before) + 1

----------------------------------------------------------------------------
\* the absolute bit range [start_pos, start_pos + bit_len()) of a stream
First(s) == s.start_pos
End(s) == s.start_pos + BitLen(s)

\* the last call derived a stream from its receiver
Derivation == (Called("read_bits") \/ Called("clone")) /\ IsOk(last.res)

\* C28: for any chain of read_bits and clone calls, the absolute bit range
\* [start_pos, start_pos + bit_len()) of a derived stream lies within the
\* range [pos, start_pos + bit_len()) its parent had when it was derived, so
\* within the bit_len of the top-level buffer and the window of every
\* ancestor.
C28_WindowContainment ==
    /\ Derivation =>
          /\ Before.pos <= First(last.res.value)
          /\ End(last.res.value) <= End(Before)
    /\ \A i \in 1..Len(streams) : End(streams[i]) <= PhysBits

\* C28 for the derivations whose window ends within a usize
C28_WindowContainmentInWord ==
    (Derivation /\ Before.pos + (IF Called("read_bits") THEN last.arg[1] ELSE 0) < Word)
       => /\ Before.pos <= First(last.res.value)
          /\ End(last.res.value) <= End(Before)

----------------------------------------------------------------------------
\* C29: set_pos is the only operation that can decrease pos(): every other
\* checked operation, succeeding or failing, leaves pos() of its receiver
\* unchanged or larger, and bit_len() of a stream is never changed by any
\* operation.
C29_CursorMonotone ==
    Returned =>
        /\ ~Called("set_pos") => Pos(After) >= Pos(Before)
        /\ \A i \in 1..Len(last.before) : BitLen(streams[i]) = BitLen(last.before[i])

\* C29 for the calls other than a read_bits whose pos + count passes a usize
C29_CursorMonotoneInWord ==
    ~(Called("read_bits") /\ Before.pos + last.arg[1] >= Word) => C29_CursorMonotone

----------------------------------------------------------------------------
\* C30: every read_string(None) that returns Ok advances pos() by at least 8
\* bits, on top-level streams and on sub-streams, so that a loop repeating
\* read_string(None) until the first error ends after at most bit_len() / 8
\* iterations.
C30_StringProgress ==
    Called("read_string") /\ last.arg = <<>> /\ IsOk(last.res) =>
        Pos(After) >= Pos(Before) + 8

\* C30 for the strings whose terminator lies within the window
C30_StringProgressTerminated ==
    /\ Called("read_string") /\ last.arg = <<>> /\ IsOk(last.res)
    /\ 8 * (Len(BufferString) + 1) <= BitsLeft(Before)
    => Pos(After) >= Pos(Before) + 8

====
